---------------------------- MODULE Spec2Model ----------------------------
(***************************************************************************)
(* Daily-journal: the entry API routes PUT and DELETE /api/entry/{id}      *)
(* (DailyThought.tsx lines 295-371), the compact DailyThought widget       *)
(* (DailyThought.tsx lines 35-294) and the full Thoughts list              *)
(* (thoughts/page.tsx).                                                    *)
(*                                                                         *)
(* The store is two tables: Entry (id -> text, user) and EntryCompetency   *)
(* (a set of <<entryID, competencyID>> rows).  Every `await                *)
(* connection.execute(...)` of a route is one step of the request that     *)
(* runs it, so requests interleave at statement granularity, as they do    *)
(* on the shared connection.  A statement either takes effect or throws    *)
(* (the route's catch block then answers 500).                             *)
(*                                                                         *)
(* Entry.createdAt and Thought.time are display-only and are left out.     *)
(* Texts are sequences of UTF-16 code units (numbers), as JavaScript       *)
(* strings are, so that trim() is computed.                                *)
(***************************************************************************)
EXTENDS Integers, Sequences, FiniteSets, TLC

\* ---------------------------------------------------------------- bounds
\* Requests issued to the API in one behaviour of SpecApi.
MaxReqs == 2
\* Longest competencyIDs list of a request body.
MaxComps == 2
\* Largest Entry id the AUTO_INCREMENT column hands out.
MaxEntries == 3
\* Requests a view sends in one behaviour of SpecViews, the loading GET included.
MaxFetches == 3

\* ------------------------------------------------------------ value sets
\* JSON null among competency ids, and the null editingId.
NullId == 0

NoEmail == "none"

Users == {"a", "b"}

CompIds == {1, 2}

EntryIds == 1..MaxEntries

\* getServerSession's results: no session, a session without user email,
\* a session of a signed-in user.
Sessions ==
    {[present |-> FALSE, email |-> NoEmail], [present |-> TRUE, email |-> NoEmail]}
        \cup {[present |-> TRUE, email |-> u] : u \in Users}

SeqsUpTo(S, n) == UNION {[1..k -> S] : k \in 0..n}

\* competencyIDs lists of a request body
CompLists == SeqsUpTo(CompIds, MaxComps)

\* The text the k-th API request submits.  The routes only store the text,
\* never inspect it, so each request carries a text of its own that tells
\* its writes apart from every other request's and from the initial rows.
ApiText(k) == <<48 + k>>

\* JSON values of a `competencies` property: null (or absent), or an array
\* whose items are competency ids or null (NullId).
JNull == [kind |-> "null", items |-> <<>>]

JArr(items) == [kind |-> "array", items |-> items]

\* The competency catalog of GET /api/competencies (seeded externally).
Catalog == <<1, 2>>

\* The session cookie of the browser that shows the views.
ClientSession == [present |-> TRUE, email |-> "a"]

\* What the user types into the textarea or the edit prompt: nothing, a
\* blank text (space, carriage return, no-break space, line feed), " x".
Inputs == {<<>>, <<32, 13, 160, 10>>, <<32, 120>>}

Range(s) == {s[k] : k \in DOMAIN s}

Prefix(s, n) == [k \in 1..n |-> s[k]]

\* ------------------------------------------------------------------ state
VARIABLES
    Entry,            \* table Entry: id -> [text, user]
    EntryCompetency,  \* table EntryCompetency: set of <<entryID, competencyID>>
    nextId,           \* AUTO_INCREMENT counter of Entry.id
    req,              \* the requests issued so far, in order of issue
    view,             \* the mounted component: "widget", "page" or "none"
    thoughts,         \* useState<Thought[]> of the mounted component
    competencies,     \* useState<Competency[]>: the catalog ids once fetched
    input,            \* widget: textarea value
    selected,         \* widget: checked competency ids
    editingId,        \* widget: id being edited, NullId for none
    clicks            \* bookkeeping for the claims: parity of the Save and Edit clicks

vars == <<Entry, EntryCompetency, nextId, req, view, thoughts, competencies,
          input, selected, editingId, clicks>>

store == <<Entry, EntryCompetency, nextId>>

client == <<view, thoughts, competencies, input, selected, editingId, clicks>>

Reqs == DOMAIN req

\* A request has answered when its status is set; pc then stays at the
\* statement that produced the answer.
Pending == 0

Done(r) == req[r].status # Pending

\* competency ids associated with entry e
Assoc(e) == {row[2] : row \in {x \in EntryCompetency : x[1] = e}}

\* Two entries of user a, with the texts "o" and "p".
InitEntry == (1 :> [text |-> <<111>>, user |-> "a"]) @@ (2 :> [text |-> <<112>>, user |-> "a"])

InitEntryCompetency == {<<1, 1>>}

InitStore ==
    /\ Entry = InitEntry
    /\ EntryCompetency = InitEntryCompetency
    /\ nextId = 3

\* ------------------------------------------------------------ the routes
\* Variant for C5: the guard tests the session only, not its user email.
NotAuthenticatedSessionOnly(session) == ~session.present

\* `!session || !session.user?.email`
NotAuthenticated(session) == ~session.present \/ session.email = NoEmail

\* The first SQL statement of each route.
FirstStatement(op) ==
    CASE op = "PUT" -> "update"
      [] op = "DELETE" -> "delete_ec"
      [] op = "POST" -> "insert_entry"
      [] OTHER -> "select"

\* A request is under way once its first statement has run and until it answers.
Begun(x) == x.status = Pending /\ x.pc \notin {"auth", FirstStatement(x.op)}

\* Bookkeeping for the claims, not part of the routes: when request r runs a
\* statement that writes rows of entry e, every other request under way on e
\* is marked as overlapped by a foreign write.
Wrote(r, e, rq) ==
    [q \in DOMAIN rq |->
        IF q # r /\ rq[q].id = e /\ Begun(rq[q])
          THEN [rq[q] EXCEPT !.overlap = TRUE]
          ELSE rq[q]]

Answered(r, status) == [req EXCEPT ![r].status = status]

At(r, pc) == [req EXCEPT ![r].pc = pc]

Respond(r, status) == req' = Answered(r, status)

Goto(r, pc) == req' = At(r, pc)

\* Variant for C8: the catch block clears the entry's rows before answering.
CatchCompensates(r) ==
    /\ Respond(r, 500)
    /\ EntryCompetency' = {row \in EntryCompetency : row[1] # req[r].id}
    /\ UNCHANGED <<Entry, nextId>>

\* The catch block of both routes: log and answer 500; nothing is undone.
Catch(r) == Respond(r, 500) /\ UNCHANGED store

\* `await getServerSession(authOptions)` and the 401 guard.  The await is
\* inside the try block, so a lookup that rejects is answered by the catch
\* block, whatever session the request came with.
Auth(r) ==
    /\ ~Done(r) /\ req[r].pc = "auth"
    /\ UNCHANGED client
    /\ \/ Catch(r)
       \/ /\ IF NotAuthenticated(req[r].session)
               THEN Respond(r, 401)
               ELSE Goto(r, FirstStatement(req[r].op))
          /\ UNCHANGED store

\* Variant for C4: the WHERE clause tests the id only.
MatchesAnyUser(id, email) == id \in DOMAIN Entry

\* rows matched by `WHERE id = ? AND user = ?`
Matches(id, email) == id \in DOMAIN Entry /\ Entry[id].user = email

\* PUT: UPDATE Entry SET text = ? WHERE id = ? AND user = ?; 404 on no row.
PutUpdate(r) ==
    /\ ~Done(r) /\ req[r].op = "PUT" /\ req[r].pc = "update"
    /\ UNCHANGED client
    /\ \/ Catch(r)
       \/ /\ IF Matches(req[r].id, req[r].session.email)
               THEN /\ Entry' = [Entry EXCEPT ![req[r].id].text = req[r].text]
                    /\ req' = Wrote(r, req[r].id, At(r, "delete_ec"))
               ELSE /\ Entry' = Entry
                    /\ Respond(r, 404)
          /\ UNCHANGED <<EntryCompetency, nextId>>

\* DELETE FROM EntryCompetency WHERE entryID = ?
DeleteRows(id) == EntryCompetency' = {row \in EntryCompetency : row[1] # id}

\* Variant for C1: the PUT inserts the new rows without deleting the old.
PutKeepsOldRows(r) ==
    /\ ~Done(r) /\ req[r].op = "PUT" /\ req[r].pc = "delete_ec"
    /\ UNCHANGED client
    /\ \/ Catch(r)
       \/ /\ req' = IF req[r].comps = <<>>
                       THEN Answered(r, 200)
                       ELSE [req EXCEPT ![r].pc = "insert", ![r].i = 1]
          /\ UNCHANGED store

\* PUT: delete the old rows; an empty competencyIDs list answers 200 here.
PutDeleteEC(r) ==
    /\ ~Done(r) /\ req[r].op = "PUT" /\ req[r].pc = "delete_ec"
    /\ UNCHANGED client
    /\ \/ Catch(r)
       \/ /\ DeleteRows(req[r].id)
          /\ req' = Wrote(r, req[r].id,
                       IF req[r].comps = <<>>
                         THEN Answered(r, 200)
                         ELSE [req EXCEPT ![r].pc = "insert", ![r].i = 1])
          /\ UNCHANGED <<Entry, nextId>>

\* INSERT INTO EntryCompetency (entryID, competencyID) VALUES (?, ?)
InsertRow(id, compID) == EntryCompetency' = EntryCompetency \cup {<<id, compID>>}

\* PUT: one iteration of `for (const compID of competencyIDs)`; 200 after the last.
PutInsert(r) ==
    /\ ~Done(r) /\ req[r].op = "PUT" /\ req[r].pc = "insert"
    /\ UNCHANGED client
    /\ \/ Catch(r)
       \/ /\ InsertRow(req[r].id, req[r].comps[req[r].i])
          /\ req' = Wrote(r, req[r].id,
                       IF req[r].i = Len(req[r].comps)
                         THEN Answered(r, 200)
                         ELSE [req EXCEPT ![r].i = @ + 1])
          /\ UNCHANGED <<Entry, nextId>>

\* DELETE: the rows go first, before any ownership test.
DelDeleteEC(r) ==
    /\ ~Done(r) /\ req[r].op = "DELETE" /\ req[r].pc = "delete_ec"
    /\ UNCHANGED client
    /\ \/ Catch(r)
       \/ /\ DeleteRows(req[r].id)
          /\ req' = Wrote(r, req[r].id, At(r, "delete_entry"))
          /\ UNCHANGED <<Entry, nextId>>

\* DELETE FROM Entry WHERE id = ? AND user = ?; 404 on no row, else 200.
DelDeleteEntry(r) ==
    /\ ~Done(r) /\ req[r].op = "DELETE" /\ req[r].pc = "delete_entry"
    /\ UNCHANGED client
    /\ \/ Catch(r)
       \/ /\ IF Matches(req[r].id, req[r].session.email)
               THEN /\ Entry' = [e \in DOMAIN Entry \ {req[r].id} |-> Entry[e]]
                    /\ req' = Wrote(r, req[r].id, Answered(r, 200))
               ELSE /\ Entry' = Entry
                    /\ Respond(r, 404)
          /\ UNCHANGED <<EntryCompetency, nextId>>

\* POST /api/entry (route not in the sources; from the specification, 4.2):
\* insert the Entry row owned by the caller, then one row per competency id.
PostInsertEntry(r) ==
    /\ ~Done(r) /\ req[r].op = "POST" /\ req[r].pc = "insert_entry"
    /\ UNCHANGED client
    /\ \/ Catch(r)
       \/ /\ nextId <= MaxEntries
          /\ Entry' = Entry @@ (nextId :> [text |-> req[r].text, user |-> req[r].session.email])
          /\ nextId' = nextId + 1
          /\ IF req[r].comps = <<>>
               THEN req' = [req EXCEPT ![r].id = nextId, ![r].status = 200]
               ELSE req' = [req EXCEPT ![r].id = nextId, ![r].pc = "insert", ![r].i = 1]
          /\ UNCHANGED EntryCompetency

PostInsert(r) ==
    /\ ~Done(r) /\ req[r].op = "POST" /\ req[r].pc = "insert"
    /\ UNCHANGED client
    /\ \/ Catch(r)
       \/ /\ InsertRow(req[r].id, req[r].comps[req[r].i])
          /\ req' = Wrote(r, req[r].id,
                       IF req[r].i = Len(req[r].comps)
                         THEN Answered(r, 200)
                         ELSE [req EXCEPT ![r].i = @ + 1])
          /\ UNCHANGED <<Entry, nextId>>

\* The body of POST's 200 answer (from the specification, 6 and 8): the
\* created entry with its generated id and the submitted competency ids.
PostResponse(x) == [id |-> x.id, text |-> x.text, competencies |-> JArr(x.comps)]

\* GET /api/entry (route not in the sources; from the specification, 4.1
\* and 6): one SELECT of the caller's entries in id order, each with its
\* competency ids; an entry without rows comes back with a null list, a list
\* holding one null, or an empty list.
Perms(S) == {p \in [1..Cardinality(S) -> S] : \A j, k \in DOMAIN p : j # k => p[j] # p[k]}

CompetenciesJson(e) ==
    IF Assoc(e) = {}
      THEN {JNull, JArr(<<NullId>>), JArr(<<>>)}
      ELSE {JArr(p) : p \in Perms(Assoc(e))}

OwnIds(email) == {e \in DOMAIN Entry : Entry[e].user = email}

RECURSIVE Ascending(_)
Ascending(S) ==
    IF S = {} THEN <<>>
    ELSE LET m == CHOOSE x \in S : \A y \in S : x <= y
         IN  <<m>> \o Ascending(S \ {m})

GetSelect(r) ==
    /\ ~Done(r) /\ req[r].op = "GET" /\ req[r].pc = "select"
    /\ UNCHANGED client
    /\ \/ Catch(r)
       \/ /\ LET ids == Ascending(OwnIds(req[r].session.email))
             IN  \E c \in [Range(ids) -> UNION {CompetenciesJson(e) : e \in Range(ids)}] :
                    /\ \A e \in Range(ids) : c[e] \in CompetenciesJson(e)
                    /\ req' = [req EXCEPT ![r].status = 200,
                                          ![r].resp = [k \in DOMAIN ids |->
                                              [id |-> ids[k], text |-> Entry[ids[k]].text,
                                               competencies |-> c[ids[k]]]]]
          /\ UNCHANGED store

\* -------------------------------------------------------------- requests
NewRequest(op, session, id, text, comps) ==
    [op |-> op, session |-> session, id |-> id, text |-> text, comps |-> comps,
     pc |-> "auth", i |-> 0, status |-> Pending, overlap |-> FALSE,
     origin |-> "api", seen |-> <<>>, delivered |-> FALSE, resp |-> <<>>]

\* A caller of the API sends a request.  A route reads the path id and the
\* body only after the 401 guard, so unauthenticated requests carry one body.
IssuePut ==
    /\ Len(req) < MaxReqs
    /\ \E session \in Sessions, id \in EntryIds, comps \in CompLists :
          /\ NotAuthenticated(session) => (id = 1 /\ comps = <<>>)
          /\ req' = Append(req, NewRequest("PUT", session, id, ApiText(Len(req) + 1), comps))
    /\ UNCHANGED <<store, client>>

IssueDelete ==
    /\ Len(req) < MaxReqs
    /\ \E session \in Sessions, id \in EntryIds :
          /\ NotAuthenticated(session) => id = 1
          /\ req' = Append(req, NewRequest("DELETE", session, id, <<>>, <<>>))
    /\ UNCHANGED <<store, client>>

IssuePost ==
    /\ Len(req) < MaxReqs
    /\ \E session \in Sessions, comps \in CompLists :
          /\ NotAuthenticated(session) => comps = <<>>
          /\ req' = Append(req, NewRequest("POST", session, NullId, ApiText(Len(req) + 1), comps))
    /\ UNCHANGED <<store, client>>

\* One statement of one request under way.
Serve ==
    \/ \E r \in Reqs : Auth(r)
    \/ \E r \in Reqs : PutUpdate(r)
    \/ \E r \in Reqs : PutDeleteEC(r)
    \/ \E r \in Reqs : PutInsert(r)
    \/ \E r \in Reqs : DelDeleteEC(r)
    \/ \E r \in Reqs : DelDeleteEntry(r)
    \/ \E r \in Reqs : PostInsertEntry(r)
    \/ \E r \in Reqs : PostInsert(r)

NoClient ==
    /\ thoughts = <<>> /\ competencies = <<>>
    /\ input = <<>> /\ selected = <<>> /\ editingId = NullId /\ clicks = 0

InitApi == InitStore /\ req = <<>> /\ view = "none" /\ NoClient

NextApi == IssuePut \/ IssueDelete \/ IssuePost \/ Serve

SpecApi == InitApi /\ [][NextApi]_vars

\* ------------------------------------------------------------- the views
\* String.prototype.trim strips the code units of WhiteSpace (TAB, VT, FF,
\* U+FEFF and the space separators: SP, NBSP, U+1680, U+2000..U+200A,
\* U+202F, U+205F, U+3000) and of LineTerminator (LF, CR, U+2028, U+2029).
WhiteSpace == {9, 11, 12, 32, 160, 5760, 8239, 8287, 12288, 65279} \cup (8192..8202)

LineTerminator == {10, 13, 8232, 8233}

IsSpace(c) == c \in WhiteSpace \cup LineTerminator

RECURSIVE TrimStart(_)
TrimStart(s) ==
    IF s = <<>> THEN s
    ELSE IF IsSpace(Head(s)) THEN TrimStart(Tail(s)) ELSE s

RECURSIVE TrimEnd(_)
TrimEnd(s) ==
    IF s = <<>> THEN s
    ELSE IF IsSpace(s[Len(s)]) THEN TrimEnd(SubSeq(s, 1, Len(s) - 1)) ELSE s

Trim(s) == TrimEnd(TrimStart(s))

\* Variant for C10: the list is passed on unfiltered.
KeepsNulls(j) == j

\* `(row.competencies && row.competencies.filter((c) => c !== null)) || []`
FilterNulls(j) ==
    IF j.kind = "array"
      THEN JArr(SelectSeq(j.items, LAMBDA c : c # NullId))
      ELSE JArr(<<>>)

\* loadThoughts: a row of the GET response as a Thought (both views).
Formatted(row) ==
    [id |-> row.id, text |-> row.text, competencies |-> FilterNulls(row.competencies)]

\* The request a handler sends with fetch; `seen` is the thoughts value the
\* handler's closure holds while it awaits the answer.
Fetch(op, id, text, comps, origin) ==
    [op |-> op, session |-> ClientSession, id |-> id, text |-> text, comps |-> comps,
     pc |-> "auth", i |-> 0, status |-> Pending, overlap |-> FALSE,
     origin |-> origin, seen |-> thoughts, delivered |-> FALSE, resp |-> <<>>]

\* The awaited fetch of request r resolves in a handler started by `origin`.
Resolves(r, origin) == Done(r) /\ ~req[r].delivered /\ req[r].origin = origin

Deliver(r) == req' = [req EXCEPT ![r].delivered = TRUE]

Ok(r) == req[r].status = 200

\* useEffect fetchCompetencies (both views)
FetchCompetencies ==
    /\ view \in {"widget", "page"}
    /\ competencies = <<>>
    /\ competencies' = Catalog
    /\ UNCHANGED <<store, req, view, thoughts, input, selected, editingId, clicks>>

\* useEffect loadThoughts (both views), from `if (!res.ok) return` on.
LoadThoughts(r) ==
    /\ Resolves(r, "load")
    /\ Deliver(r)
    /\ thoughts' = IF Ok(r)
                     THEN [k \in DOMAIN req[r].resp |-> Formatted(req[r].resp[k])]
                     ELSE thoughts
    /\ UNCHANGED <<store, view, competencies, input, selected, editingId, clicks>>

\* widget: textarea onChange
SetInput ==
    /\ view = "widget"
    /\ \E text \in Inputs \ {input} : input' = text
    /\ UNCHANGED <<store, req, view, thoughts, competencies, selected, editingId, clicks>>

\* widget: toggleCompetency, from a checkbox of the fetched catalog
ToggleCompetency ==
    /\ view = "widget"
    /\ \E id \in Range(competencies) :
          selected' = IF id \in Range(selected)
                        THEN SelectSeq(selected, LAMBDA c : c # id)
                        ELSE Append(selected, id)
    /\ UNCHANGED <<store, req, view, thoughts, competencies, input, editingId, clicks>>

\* Variant for C9: the guard compares the untrimmed input with "".
HandleSaveUntrimmed ==
    /\ view = "widget"
    /\ clicks' = 1 - clicks
    /\ IF input = <<>>
         THEN req' = req
         ELSE /\ Len(req) < MaxFetches
              /\ req' = Append(req,
                   IF editingId # NullId
                     THEN Fetch("PUT", editingId, input, selected, "save")
                     ELSE Fetch("POST", NullId, input, selected, "save"))
    /\ UNCHANGED <<store, view, thoughts, competencies, input, selected, editingId>>

\* widget: handleSave up to its fetch.  Blank input returns at once.
\* handleEdit and handleDelete are bound to no control of the rendered
\* widget, and the Cancel button shows only while editingId is set, so in
\* the running widget editingId stays null and Save always takes the POST
\* branch; the PUT branch is kept as the code has it.
HandleSave ==
    /\ view = "widget"
    /\ clicks' = 1 - clicks
    /\ IF Trim(input) = <<>>
         THEN req' = req
         ELSE /\ Len(req) < MaxFetches
              /\ req' = Append(req,
                   IF editingId # NullId
                     THEN Fetch("PUT", editingId, input, selected, "save")
                     ELSE Fetch("POST", NullId, input, selected, "save"))
    /\ UNCHANGED <<store, view, thoughts, competencies, input, selected, editingId>>

\* widget: handleSave after its fetch.  The closure's thoughts, input, selected
\* and editingId are those of the render in which Save was clicked.
HandleSaveResumes(r) ==
    /\ view = "widget"
    /\ Resolves(r, "save")
    /\ Deliver(r)
    /\ IF ~Ok(r)
         THEN UNCHANGED <<thoughts, input, selected, editingId>>
         ELSE IF req[r].op = "PUT"
           THEN /\ thoughts' = [k \in DOMAIN req[r].seen |->
                                  IF req[r].seen[k].id = req[r].id
                                    THEN [req[r].seen[k] EXCEPT
                                            !.text = req[r].text,
                                            !.competencies = JArr(req[r].comps)]
                                    ELSE req[r].seen[k]]
                /\ input' = <<>> /\ selected' = <<>> /\ editingId' = NullId
           ELSE /\ thoughts' = <<[id |-> PostResponse(req[r]).id,
                                  text |-> PostResponse(req[r]).text,
                                  competencies |-> PostResponse(req[r]).competencies]>>
                                \o req[r].seen
                /\ input' = <<>> /\ selected' = <<>> /\ editingId' = editingId
    /\ UNCHANGED <<store, view, competencies, clicks>>

\* page: Edit onClick up to its fetch.  window.prompt gives null on Cancel,
\* and otherwise what the user typed or left of the default, thought.text.
PageEdit ==
    /\ view = "page"
    /\ clicks' = 1 - clicks
    /\ \E k \in DOMAIN thoughts, cancelled \in BOOLEAN :
       \E newText \in Inputs \cup {thoughts[k].text} :
          /\ thoughts[k].competencies.kind = "array"
          /\ cancelled => newText = <<>>
          /\ IF cancelled \/ newText = <<>> \/ Trim(newText) = <<>>
               THEN req' = req
               ELSE /\ Len(req) < MaxFetches
                    /\ req' = Append(req, Fetch("PUT", thoughts[k].id, newText,
                                                thoughts[k].competencies.items, "edit"))
    /\ UNCHANGED <<store, view, thoughts, competencies, input, selected, editingId>>

\* page: Edit onClick after its fetch: setThoughts((prev) => prev.map(...))
PageEditResumes(r) ==
    /\ view = "page"
    /\ Resolves(r, "edit")
    /\ Deliver(r)
    /\ thoughts' = IF Ok(r)
                     THEN [k \in DOMAIN thoughts |->
                             IF thoughts[k].id = req[r].id
                               THEN [thoughts[k] EXCEPT !.text = req[r].text]
                               ELSE thoughts[k]]
                     ELSE thoughts
    /\ UNCHANGED <<store, view, competencies, input, selected, editingId, clicks>>

\* page: Delete onClick up to its fetch, once confirm() is accepted
PageDelete ==
    /\ view = "page"
    /\ Len(req) < MaxFetches
    /\ \E k \in DOMAIN thoughts :
          req' = Append(req, Fetch("DELETE", thoughts[k].id, <<>>, <<>>, "pagedelete"))
    /\ UNCHANGED <<store, client>>

\* page: Delete onClick after its fetch: setThoughts((prev) => prev.filter(...))
PageDeleteResumes(r) ==
    /\ view = "page"
    /\ Resolves(r, "pagedelete")
    /\ Deliver(r)
    /\ thoughts' = IF Ok(r)
                     THEN SelectSeq(thoughts, LAMBDA t : t.id # req[r].id)
                     ELSE thoughts
    /\ UNCHANGED <<store, view, competencies, input, selected, editingId, clicks>>

\* A view has mounted and its loadThoughts effect has sent GET /api/entry.
InitViews ==
    /\ InitStore
    /\ view \in {"widget", "page"}
    /\ NoClient
    /\ req = <<[op |-> "GET", session |-> ClientSession, id |-> NullId, text |-> <<>>,
                comps |-> <<>>, pc |-> "auth", i |-> 0, status |-> Pending,
                overlap |-> FALSE, origin |-> "load", seen |-> <<>>,
                delivered |-> FALSE, resp |-> <<>>]>>

NextViews ==
    \/ FetchCompetencies
    \/ \E r \in Reqs : LoadThoughts(r)
    \/ SetInput
    \/ ToggleCompetency
    \/ HandleSave
    \/ \E r \in Reqs : HandleSaveResumes(r)
    \/ PageEdit
    \/ \E r \in Reqs : PageEditResumes(r)
    \/ PageDelete
    \/ \E r \in Reqs : PageDeleteResumes(r)
    \/ \E r \in Reqs : GetSelect(r)
    \/ Serve

SpecViews == InitViews /\ [][NextViews]_vars

\* ================================================================ claims
\* Helpers of the claims.
Authenticated(r) == req[r].session.present /\ req[r].session.email \in Users

Mutating(r) == req[r].op \in {"PUT", "DELETE"}

\* Request r takes the step (issuing a request is a step of its caller).
Acts(r) ==
    /\ r \in DOMAIN req'
    /\ \/ req'[r].pc # req[r].pc
       \/ req'[r].i # req[r].i
       \/ req'[r].status # req[r].status

\* Request r answers in this step.
Answers(r) == r \in DOMAIN req' /\ req[r].status = Pending /\ req'[r].status # Pending

AllDone == \A r \in Reqs : Done(r)

\* The user an entry id was created for: ids are handed out once and the
\* user column is never updated.  NoEmail while the id has not been created.
OwnerOf(id) ==
    IF id \in DOMAIN InitEntry THEN InitEntry[id].user
    ELSE IF \E q \in Reqs : req[q].op = "POST" /\ req[q].id = id
           THEN req[CHOOSE q \in Reqs : req[q].op = "POST" /\ req[q].id = id].session.email
           ELSE NoEmail

\* ---------------------------------------------------------------- C1
\* C1: when a PUT by the owner answers 200 and no other request wrote to the
\* entry while the PUT was under way, the store holds, at the answer, the
\* PUT's text and exactly the PUT's competency ids for the entry: no earlier
\* row survives, none of the submitted ids is missing (none at all for []).
C1_PutReplaces ==
    [][\A r \in Reqs :
          (Answers(r) /\ req[r].op = "PUT" /\ req'[r].status = 200 /\ ~req'[r].overlap)
            => /\ req[r].id \in DOMAIN Entry'
               /\ Entry'[req[r].id].text = req[r].text
               /\ {row[2] : row \in {x \in EntryCompetency' : x[1] = req[r].id}}
                    = Range(req[r].comps)]_vars

\* A PUT of [2] over the initial row (1, 1) has answered 200 and the entry
\* holds the new text and the single competency 2.
C1_Witness ==
    \E r \in Reqs :
        /\ req[r].op = "PUT" /\ req[r].status = 200 /\ ~req[r].overlap
        /\ req[r].id = 1 /\ req[r].comps = <<2>>
        /\ Entry[1].text = req[r].text /\ Assoc(1) = {2}

\* ---------------------------------------------------------------- C2
\* C2: once every request of an interleaving of PUT and DELETE requests has
\* answered, every EntryCompetency row refers to an existing Entry row; in
\* particular an entry whose DELETE answered 200 is gone together with all
\* its rows.
C2_NoOrphans ==
    (AllDone /\ \A q \in Reqs : Mutating(q)) =>
        /\ \A row \in EntryCompetency : row[1] \in DOMAIN Entry
        /\ \A r \in Reqs :
              (req[r].op = "DELETE" /\ req[r].status = 200)
                => (req[r].id \notin DOMAIN Entry /\ Assoc(req[r].id) = {})

\* ---------------------------------------------------------------- C3
\* C3: no step of a PUT or DELETE whose authenticated user does not own the
\* entry changes the Entry table or the EntryCompetency table.
C3_OwnershipBeforeActing ==
    [][\A r \in Reqs :
          (Acts(r) /\ Mutating(r) /\ Authenticated(r)
             /\ ~Matches(req[r].id, req[r].session.email))
            => UNCHANGED <<Entry, EntryCompetency>>]_vars

\* ---------------------------------------------------------------- C4
\* C4: a PUT or DELETE by an authenticated user on an id that was created
\* for another user, or never created, answers 404 -- never 200, 401 or
\* 403 -- in both cases alike; the one other answer is the 500 of the catch
\* block, when the session lookup or a database statement threw.
C4_NotOwnedIs404 ==
    \A r \in Reqs :
        (Done(r) /\ Mutating(r) /\ Authenticated(r) /\ OwnerOf(req[r].id) # req[r].session.email)
          => /\ req[r].status \in {404, 500}
             /\ req[r].status = 500 =>
                  req[r].pc \in {"auth", "update", "delete_ec", "delete_entry"}
             /\ req[r].status = 404 =>
                  req[r].pc = (IF req[r].op = "PUT" THEN "update" ELSE "delete_entry")

\* One request on an entry owned by another user and one on an id never
\* created have both answered 404.
C4_Witness ==
    \E r1, r2 \in Reqs :
        /\ Mutating(r1) /\ Authenticated(r1) /\ req[r1].status = 404
        /\ req[r1].id \in DOMAIN Entry /\ Entry[req[r1].id].user # req[r1].session.email
        /\ Mutating(r2) /\ Authenticated(r2) /\ req[r2].status = 404
        /\ OwnerOf(req[r2].id) = NoEmail

\* ---------------------------------------------------------------- C5
\* C5: a POST, PUT or DELETE without a session, or with a session that has no
\* user email, answers in its one step, before any statement, and that step
\* leaves Entry, EntryCompetency and the id counter as they were; the answer
\* is 401 once the session lookup has returned, and the catch block's 500
\* when the lookup itself threw.
C5_Unauthenticated401 ==
    [][\A r \in Reqs :
          (Acts(r) /\ ~Authenticated(r))
            => /\ req'[r].status \in {401, 500}
               /\ req'[r].pc = "auth"
               /\ UNCHANGED store]_vars

\* A DELETE without session and a PUT with a session without email have
\* answered 401.
C5_Witness ==
    \E r1, r2 \in Reqs :
        /\ req[r1].op = "DELETE" /\ ~req[r1].session.present /\ req[r1].status = 401
        /\ req[r2].op = "PUT" /\ req[r2].session.present /\ req[r2].status = 401
        /\ Entry = InitEntry /\ EntryCompetency = InitEntryCompetency

\* ---------------------------------------------------------------- C6
\* C6: every operation is one atomic transaction: a step that changes the
\* text or the rows of an entry that exists before and after it is the whole
\* PUT, which answers 200 in that step and leaves its text and exactly its
\* competency ids; no other state of the entry is ever in the store for a
\* concurrent request to read.
C6_AtomicOperations ==
    [][\A r \in Reqs : \A e \in DOMAIN Entry \cap DOMAIN Entry' :
          (/\ Acts(r) /\ Mutating(r)
           /\ \/ Entry'[e] # Entry[e]
              \/ {x \in EntryCompetency' : x[1] = e} # {x \in EntryCompetency : x[1] = e})
            => /\ Answers(r) /\ req[r].op = "PUT" /\ req[r].id = e
               /\ req'[r].status = 200
               /\ Entry'[e].text = req[r].text
               /\ {x[2] : x \in {y \in EntryCompetency' : y[1] = e}} = Range(req[r].comps)]_vars

\* ---------------------------------------------------------------- C7
\* C7: when two PUTs to the same entry have both answered 200 and no other
\* request has run a statement, the entry holds the text and the competency
\* ids of one and the same of the two.
C7_LastWriteWins ==
    \A r1, r2 \in Reqs :
        (/\ r1 # r2
         /\ req[r1].op = "PUT" /\ req[r2].op = "PUT"
         /\ req[r1].id = req[r2].id
         /\ req[r1].status = 200 /\ req[r2].status = 200
         /\ \A q \in Reqs \ {r1, r2} : req[q].pc = "auth")
          => \E w \in {r1, r2} :
                /\ req[w].id \in DOMAIN Entry
                /\ Entry[req[w].id].text = req[w].text
                /\ Assoc(req[w].id) = Range(req[w].comps)

\* ---------------------------------------------------------------- C8
\* C8: a statement of PUT or DELETE that throws answers 500 in that step
\* and leaves the store as the earlier statements left it (no compensation):
\* unless another request wrote to the entry meanwhile, a PUT failing after
\* its UPDATE leaves the new text, failing at its k-th INSERT leaves the
\* first k-1 competency ids, and a DELETE failing at its second statement
\* leaves the Entry row without rows.  An answered request takes no further
\* step (no retry).
C8_Inv(r) ==
    LET e == req[r].id
        rows == {x[2] : x \in {y \in EntryCompetency' : y[1] = e}}
    IN  /\ UNCHANGED store
        /\ ~req[r].overlap =>
             /\ (req[r].op = "PUT" /\ req[r].pc \in {"delete_ec", "insert"})
                  => (e \in DOMAIN Entry' /\ Entry'[e].text = req[r].text)
             /\ (req[r].op = "PUT" /\ req[r].pc = "insert")
                  => rows = Range(Prefix(req[r].comps, req[r].i - 1))
             /\ (req[r].op = "DELETE" /\ req[r].pc = "delete_entry")
                  => rows = {}

C8_FailureLeavesPartialState ==
    [][\A r \in Reqs :
          /\ (Answers(r) /\ Mutating(r) /\ req'[r].status = 500) => C8_Inv(r)
          /\ (Done(r) /\ Mutating(r)) => req'[r] = req[r]]_vars

\* A PUT of two competency ids has answered 500 at its second INSERT: the
\* entry holds the new text and the first id only.
C8_Witness ==
    \E r \in Reqs :
        /\ req[r].op = "PUT" /\ req[r].status = 500 /\ ~req[r].overlap
        /\ req[r].pc = "insert" /\ req[r].i = 2 /\ req[r].comps = <<2, 1>>
        /\ Entry[req[r].id].text = req[r].text
        /\ Assoc(req[r].id) = {2}

\* ---------------------------------------------------------------- C9
\* C9: a Save click in the widget or an Edit in the full list sends a POST
\* or PUT only with a text that is not empty after trim(); a click with an
\* empty or whitespace-only text sends nothing, and no click changes the
\* input, the selection, the editing id or the cached list.
C9_BlankTextRejected ==
    [][clicks' # clicks =>
          /\ UNCHANGED <<input, selected, editingId, thoughts, store>>
          /\ \/ req' = req
             \/ /\ Len(req') = Len(req) + 1
                /\ SubSeq(req', 1, Len(req)) = req
                /\ req'[Len(req')].op \in {"POST", "PUT"}
                /\ Trim(req'[Len(req')].text) # <<>>
          /\ (view = "widget" /\ Trim(input) = <<>>) => req' = req
          /\ (view = "widget" /\ req' # req) => req'[Len(req')].text = input]_vars

\* The widget's input is whitespace only, Save has been clicked an odd
\* number of times, and the loading GET is still the only request sent.
C9_Witness ==
    /\ view = "widget"
    /\ input = <<32, 13, 160, 10>>
    /\ clicks = 1
    /\ Len(req) = 1

\* ---------------------------------------------------------------- C10
\* C10: every thought of the cached list of either view has a competencies
\* list (never null), and no item of the list is null.
C10_NoNullCompetency ==
    \A k \in DOMAIN thoughts :
        /\ thoughts[k].competencies.kind = "array"
        /\ NullId \notin Range(thoughts[k].competencies.items)

\* The GET answered a list holding one null and it was loaded as the empty
\* list; a saved thought stands before the loaded ones.
C10_Witness ==
    \E r \in Reqs :
        /\ req[r].origin = "load" /\ req[r].delivered /\ req[r].status = 200
        /\ \E k \in DOMAIN req[r].resp, j \in DOMAIN thoughts :
              /\ req[r].resp[k].competencies = JArr(<<NullId>>)
              /\ thoughts[j].id = req[r].resp[k].id
              /\ thoughts[j].competencies = JArr(<<>>)
        /\ \E q \in Reqs : req[q].origin = "save" /\ req[q].delivered /\ req[q].status = 200

\* Every fetch of the mounted view has answered and its handler has run on.
Settled == \A r \in Reqs : Done(r) /\ req[r].delivered

\* The positions of the cached list that show entry id.
Shown(id) == {k \in DOMAIN thoughts : thoughts[k].id = id}

\* ---------------------------------------------------------------- C11
\* C11: in the widget, once the initial load and every save have answered
\* and their handlers have run on, every entry whose POST answered 200 is
\* shown exactly once in the cached thoughts list.
C11_SavedShownOnce ==
    (view = "widget" /\ Settled)
        => \A r \in Reqs :
              (req[r].op = "POST" /\ req[r].status = 200)
                  => Cardinality(Shown(req[r].id)) = 1

\* competency ids entry e had when the view mounted
InitAssoc(e) == {row[2] : row \in {x \in InitEntryCompetency : x[1] = e}}

\* ---------------------------------------------------------------- C12
\* C12: in the full list, with the page's session alone acting on the store,
\* once every edit and delete has answered without a database error and its
\* handler has run on, the cached list holds exactly the caller's stored
\* entries, once each, with the stored text and the stored competency set,
\* and every stored entry still has the competency set it had at the start.
C12_PageAgreesWithStore ==
    (view = "page" /\ Settled /\ \A r \in Reqs : req[r].status # 500)
        => /\ Len(thoughts) = Cardinality(OwnIds(ClientSession.email))
           /\ \A e \in OwnIds(ClientSession.email) : Shown(e) # {}
           /\ \A k \in DOMAIN thoughts :
                 /\ thoughts[k].id \in DOMAIN Entry
                 /\ thoughts[k].text = Entry[thoughts[k].id].text
                 /\ Range(thoughts[k].competencies.items) = Assoc(thoughts[k].id)
           /\ \A e \in DOMAIN Entry : Assoc(e) = InitAssoc(e)

=============================================================================
